---------------------------- MODULE Spec2Model ----------------------------
(***************************************************************************)
(* The Level-1 product writer of pyspex (src/src/pyspex/lv1_io.py): the    *)
(* classes Lv1io, L1Aio, L1Bio and L1Cio over a netCDF4 file.              *)
(*                                                                         *)
(* A dataset name is a POSIX path, modelled as the sequence of its         *)
(* components with "/" as first component when the path is absolute:       *)
(* '/science_data/detector_images' is <<"/", "science_data",               *)
(* "detector_images">>, 'science_data' is <<"science_data">>.              *)
(*                                                                         *)
(* Time values are integers in microseconds; a time-coverage attribute is  *)
(* the number of milliseconds after the reference date that the ISO-8601   *)
(* string (timespec='milliseconds') shows.                                 *)
(***************************************************************************)
EXTENDS Integers, Sequences, FiniteSets, TLC

\* ------------------------------------------------------------------ bounds
\* Number of product instances constructed in one process.
MaxProducts == 2
\* Largest value a stored-length counter is driven to.
MaxStored == 2
\* Largest number of rows in the value of one set_dset call.
MaxRows == 2
\* Size given to the row dimension when it is created with a fixed size.
FixedRows == 2
\* Size of the (fixed) number_of_views dimension of L1B and L1C products.
FixedViews == 1

\* --------------------------------------------------------------- utilities
Range(s) == {s[i] : i \in DOMAIN s}

Max(S) == CHOOSE x \in S : \A y \in S : y <= x

\* self.fid = None
None == 0

\* A row of an unlimited or fixed dimension that was never written reads as
\* the netCDF fill value, which the netCDF4 library returns masked.
Fill == -1

\* dset[i].data of a masked element is the data of numpy.ma.masked: 0.0
MaskedData(x) == IF x = Fill THEN 0 ELSE x

\* set_dset(name, value) with ibgn left at its default of -1
DefaultIbgn == -1

\* ds_name=None of get_attr and set_attr
NoTarget == <<"<None>">>

K(grp, var) == <<"/", grp, var>>

\* ------------------------------------------------- the stored-length tables
\* Keys of L1Aio.dset_stored, in the order of the dict.
L1A_keys ==
    << K("science_data", "detector_images"),
       K("science_data", "detector_telemetry"),
       K("image_attributes", "binning_table"),
       K("image_attributes", "digital_offset"),
       K("image_attributes", "nr_coadditions"),
       K("image_attributes", "exposure_time"),
       K("image_attributes", "icu_time_sec"),
       K("image_attributes", "icu_time_subsec"),
       K("image_attributes", "image_time"),
       K("image_attributes", "image_ID"),
       K("engineering_data", "NomHK_telemetry"),
       K("engineering_data", "temp_detector"),
       K("engineering_data", "temp_housing"),
       K("engineering_data", "temp_radiator"),
       K("engineering_data", "HK_tlm_time") >>

\* Keys of L1Bio.dset_stored, in the order of the dict.
L1B_keys ==
    << K("BIN_ATTRIBUTES", "image_time"),
       K("GEOLOCATION_DATA", "altitude"),
       K("GEOLOCATION_DATA", "latitude"),
       K("GEOLOCATION_DATA", "longitude"),
       K("GEOLOCATION_DATA", "sensor_azimuth"),
       K("GEOLOCATION_DATA", "sensor_zenith"),
       K("GEOLOCATION_DATA", "solar_azimuth"),
       K("GEOLOCATION_DATA", "solar_zenith"),
       K("OBSERVATION_DATA", "I"),
       K("OBSERVATION_DATA", "I_noise"),
       K("OBSERVATION_DATA", "AoLP"),
       K("OBSERVATION_DATA", "AoLP_noise"),
       K("OBSERVATION_DATA", "DoLP"),
       K("OBSERVATION_DATA", "DoLP_noise"),
       K("OBSERVATION_DATA", "Q_over_I"),
       K("OBSERVATION_DATA", "Q_over_I_noise"),
       K("OBSERVATION_DATA", "U_over_I"),
       K("OBSERVATION_DATA", "U_over_I_noise"),
       K("SENSOR_VIEWS_BANDS", "viewport_index"),
       K("SENSOR_VIEWS_BANDS", "intensity_wavelengths"),
       K("SENSOR_VIEWS_BANDS", "intensity_bandpasses"),
       K("SENSOR_VIEWS_BANDS", "intensity_F0"),
       K("SENSOR_VIEWS_BANDS", "polarization_wavelengths"),
       K("SENSOR_VIEWS_BANDS", "polarization_bandpasses"),
       K("SENSOR_VIEWS_BANDS", "polarization_F0"),
       K("SENSOR_VIEWS_BANDS", "view_angles") >>

\* Keys of L1Cio.dset_stored, in the order of the dict.
L1C_keys ==
    << K("BIN_ATTRIBUTES", "nadir_view_time"),
       K("BIN_ATTRIBUTES", "view_time_offsets"),
       K("GEOLOCATION_DATA", "latitude"),
       K("GEOLOCATION_DATA", "longitude"),
       K("GEOLOCATION_DATA", "altitude"),
       K("GEOLOCATION_DATA", "altitude_variability"),
       K("GEOLOCATION_DATA", "sensor_azimuth"),
       K("GEOLOCATION_DATA", "sensor_zenith"),
       K("GEOLOCATION_DATA", "solar_azimuth"),
       K("GEOLOCATION_DATA", "solar_zenith"),
       K("OBSERVATION_DATA", "obs_per_view"),
       K("OBSERVATION_DATA", "AoLP"),
       K("OBSERVATION_DATA", "AoLP_noise"),
       K("OBSERVATION_DATA", "DoLP"),
       K("OBSERVATION_DATA", "DoLP_noise"),
       K("OBSERVATION_DATA", "I"),
       K("OBSERVATION_DATA", "I_noise"),
       K("OBSERVATION_DATA", "I_polsample"),
       K("OBSERVATION_DATA", "I_polsample_noise"),
       K("OBSERVATION_DATA", "QC"),
       K("OBSERVATION_DATA", "QC_bitwise"),
       K("OBSERVATION_DATA", "QC_polsample"),
       K("OBSERVATION_DATA", "QC_polsample_bitwise"),
       K("OBSERVATION_DATA", "Q_over_I"),
       K("OBSERVATION_DATA", "Q_over_I_noise"),
       K("OBSERVATION_DATA", "U_over_I"),
       K("OBSERVATION_DATA", "U_over_I_noise"),
       K("SENSOR_VIEWS_BANDS", "intensity_bandpasses"),
       K("SENSOR_VIEWS_BANDS", "intensity_wavelengths"),
       K("SENSOR_VIEWS_BANDS", "intensity_F0"),
       K("SENSOR_VIEWS_BANDS", "polarization_bandpasses"),
       K("SENSOR_VIEWS_BANDS", "polarization_wavelengths"),
       K("SENSOR_VIEWS_BANDS", "polarization_F0"),
       K("SENSOR_VIEWS_BANDS", "view_angles") >>

\* The classes that can be instantiated: the three processing levels.
Levels == {"L1A", "L1B", "L1C"}

\* processing_level of the base class Lv1io
UnknownLevel == "unknown"

KeyList(level) ==
    CASE level = "L1A" -> L1A_keys
      [] level = "L1B" -> L1B_keys
      [] level = "L1C" -> L1C_keys
      [] OTHER -> << >>

\* The keys of the dset_stored dict of each class.
KeysOf == [l \in Levels |-> Range(KeyList(l))]

Keys(level) == KeysOf[level]

\* ------------------------------------------------------- the file's schema
\* Every key of dset_stored is a variable of the file (the append branch of
\* __init__ reads self.fid[key].shape for each); fill_demhk writes one more.
FileVarsOf ==
    [l \in Levels |->
        {<<k[2], k[3]>> : k \in Keys(l)}
            \cup (IF l = "L1A"
                  THEN {<<"engineering_data", "DemHK_telemetry">>} ELSE {})]

FileVars(level) == FileVarsOf[level]

FileGroupsOf == [l \in Levels |-> {v[1] : v \in FileVars(l)}]

FileGroups(level) == FileGroupsOf[level]

\* The dimension along the first axis of a variable, as check_stored groups
\* the variables: "row" is number_of_images (L1A) or bins_along_track,
\* "aux" is hk_packets (L1A) or number_of_views.
DimRole(level, var) ==
    IF level = "L1A"
    THEN (IF var[1] = "engineering_data" THEN "aux" ELSE "row")
    ELSE (IF var[1] = "SENSOR_VIEWS_BANDS" THEN "aux" ELSE "row")

\* The variable whose first and last entry give the time coverage.
TimeVar(level) ==
    CASE level = "L1A" -> <<"image_attributes", "image_time">>
      [] level = "L1B" -> <<"BIN_ATTRIBUTES", "image_time">>
      [] level = "L1C" -> <<"BIN_ATTRIBUTES", "nadir_view_time">>


\* --------------------------------------------------------------- the paths
\* str(PurePosixPath(name).parent) == '.'
Dot == <<".">>

\* str(PurePosixPath(name).parent)
PathParent(p) ==
    IF p[1] = "/"
    THEN (IF Len(p) <= 2 THEN <<"/">> ELSE SubSeq(p, 1, Len(p) - 1))
    ELSE (IF Len(p) = 1 THEN Dot ELSE SubSeq(p, 1, Len(p) - 1))

\* str(PurePosixPath(name).name)
PathName(p) == IF p = <<"/">> THEN "" ELSE p[Len(p)]

\* The components below the root group that a path walks through.
Comps(p) == IF p[1] = "/" THEN Tail(p) ELSE p

\* netCDF4.Dataset.__getitem__(path) on a file of the given level: what the
\* path resolves to, or the exception raised.  A missing group on the way is
\* a KeyError of group.groups[g]; a missing last name is the library's
\* IndexError('... not found in ...').
GetItem(level, p) ==
    LET c == Comps(p) IN
    IF c = << >> THEN "IndexError"
    ELSE IF Len(c) = 1
         THEN (IF c[1] \in FileGroups(level) THEN "group" ELSE "IndexError")
    ELSE IF c[1] \notin FileGroups(level) THEN "KeyError"
    ELSE IF Len(c) = 2
         THEN (IF c \in FileVars(level) THEN "variable" ELSE "IndexError")
    ELSE "KeyError"

\* Names of the variables in self.fid[grp_name].variables
GroupVariables(level, grp) ==
    LET c == Comps(grp) IN
    IF Len(c) = 1 THEN {v[2] : v \in {w \in FileVars(level) : w[1] = c[1]}}
    ELSE {}

\* -------------------------------------------------------------- the files
\* A file that was never created.
NoFile ==
    [level |-> "none", fixed |-> [row |-> 0, aux |-> 0],
     data |-> << >>, attrs |-> {}, open |-> FALSE]

\* The file init_l1a, init_l1b or init_l1c creates: the dimensions as given
\* (0 is None, the unlimited dimension), no data, and opened for writing.
NewFile(level, dims) ==
    [level |-> level, fixed |-> dims, data |-> << >>, attrs |-> {},
     open |-> TRUE]

\* The rows written to a variable (the rows behind them read as Fill).
VarData(f, v) == IF v \in DOMAIN f.data THEN f.data[v] ELSE << >>

\* self.fid.dimensions[name].size: the fixed size, or for an unlimited
\* dimension the largest extent written to one of its variables.
DimSize(f, role) ==
    IF f.fixed[role] > 0 THEN f.fixed[role]
    ELSE Max({0} \cup {Len(f.data[v]) :
                 v \in {w \in DOMAIN f.data : DimRole(f.level, w) = role}})

\* self.fid[var][idx] for a 1-based idx within the dimension
Elem(f, v, idx) ==
    IF idx >= 1 /\ idx <= Len(VarData(f, v)) THEN VarData(f, v)[idx] ELSE Fill

\* value.shape[0], or 1 for a scalar: the increment of line 276
NRows(value) == IF value.scalar THEN 1 ELSE Len(value.rows)

\* self.fid[name][ibgn:, ...] = value on an unlimited first dimension.
\* An array of k rows is stored in rows ibgn .. ibgn+k-1 (a gap before ibgn
\* reads as Fill); a scalar is broadcast over the rows ibgn .. length-1 the
\* variable has (one row when the dimension is still empty).
WriteUnlimited(f, v, value, ibgn) ==
    LET old == VarData(f, v)
        cur == DimSize(f, DimRole(f.level, v))
        upto == IF value.scalar
                THEN (IF cur = 0 THEN 1 ELSE cur)
                ELSE ibgn + Len(value.rows)
        len == IF upto > ibgn THEN Max({Len(old), upto}) ELSE Len(old)
    IN  [j \in 1..len |->
            IF j > ibgn /\ j <= upto
            THEN (IF value.scalar THEN value.rows[1] ELSE value.rows[j - ibgn])
            ELSE IF j <= Len(old) THEN old[j] ELSE Fill]

\* self.fid[name][...] = value on a first dimension of fixed size n: the
\* value is broadcast to the n rows, which a value of other than 1 or n rows
\* cannot be.
FixedFits(n, value) ==
    value.scalar \/ Len(value.rows) = n \/ Len(value.rows) = 1

WriteFixed(n, value) ==
    [j \in 1..n |->
        IF value.scalar \/ Len(value.rows) = 1
        THEN value.rows[1] ELSE value.rows[j]]

\* The file with the rows of one variable replaced.
WithData(f, v, rows) ==
    IF rows = << >> /\ v \notin DOMAIN f.data THEN f
    ELSE [f EXCEPT !.data =
            [w \in (DOMAIN f.data) \cup {v} |->
                IF w = v THEN rows ELSE f.data[w]]]

\* setncattr: the attribute of one object (<< >> is the root group) is set,
\* replacing its former value.
WithAttr(f, obj, name, val) ==
    [f EXCEPT !.attrs =
        {a \in f.attrs : ~(a[1] = obj /\ a[2] = name)}
            \cup {<<obj, name, val>>}]

HasAttr(f, obj, name) == \E a \in f.attrs : a[1] = obj /\ a[2] = name


\* ------------------------------------------------------ Lv1io.__init__
\* The result of constructing a product of class `level`: the exception
\* raised ("none" when the constructor returns), the file it holds and the
\* class's dset_stored table afterwards.  `old` is the file opened in append
\* mode.  dset_stored is a class attribute: the constructor does not touch
\* it when append is False, and overwrites its entries with the lengths in
\* the file when append is True.
Lv1io_init(level, dims, append, old, stored) ==
    IF ~append
    THEN (IF level \in Levels
          THEN [raised |-> "none", file |-> NewFile(level, dims),
                stored |-> stored]
          ELSE [raised |-> "KeyError", file |-> NoFile, stored |-> stored])
    ELSE LET f == [old EXCEPT !.open = TRUE] IN
         [raised |-> "none", file |-> f,
          stored |-> [k \in DOMAIN stored |->
                         DimSize(f, DimRole(level, Comps(k)))]]

\* ------------------------------------------------------ Lv1io.set_dset
\* Line 276 as it would read with "+= 1" for every value.
StoredAfter_one(stored, name, value) ==
    [stored EXCEPT ![name] = @ + 1]

\* Line 276 as it would read if the increment went to every key.
StoredAfter_all(stored, name, value) ==
    [k \in DOMAIN stored |-> stored[k] + NRows(value)]

\* self.dset_stored[name] += 1 if value.shape == () else value.shape[0]
StoredAfter(stored, name, value) ==
    [stored EXCEPT ![name] = @ + NRows(value)]

\* The check that the dataset is present, lines 257-264: "none" when it
\* passes, else the exception raised.
DsetPresent(f, name) ==
    LET grp == PathParent(name) IN
    IF grp # Dot
    THEN (CASE GetItem(f.level, grp) \in {"IndexError", "KeyError"}
                   -> GetItem(f.level, grp)
            [] GetItem(f.level, grp) = "variable" -> "AttributeError"
            [] OTHER -> IF PathName(name) \in GroupVariables(f.level, grp)
                        THEN "none" ELSE "KeyError")
    ELSE "KeyError"  \* the root group of a Level-1 product holds no variable

\* The result of set_dset(name, value, ibgn) on instance record p holding
\* file f, with `stored` the dset_stored table of p's class.
Lv1io_set_dset(p, f, stored, name, value, ibgn) ==
    LET same == [raised |-> "none", file |-> f, stored |-> stored]
        v == Comps(name)
        n == f.fixed[DimRole(f.level, v)]
        Counted(f2) ==
            IF name \in DOMAIN stored
            THEN [raised |-> "none", file |-> f2,
                  stored |-> StoredAfter(stored, name, value)]
            ELSE [raised |-> "KeyError", file |-> f2, stored |-> stored]
    IN
    IF p.fid = None
    THEN [same EXCEPT !.raised =
             IF PathParent(name) # Dot THEN "TypeError" ELSE "AttributeError"]
    ELSE IF ~f.open THEN [same EXCEPT !.raised = "RuntimeError"]
    ELSE IF DsetPresent(f, name) # "none"
    THEN [same EXCEPT !.raised = DsetPresent(f, name)]
    ELSE IF n = 0
    THEN (IF ibgn < 0 /\ name \notin DOMAIN stored
          THEN [same EXCEPT !.raised = "KeyError"]
          ELSE Counted(WithData(f, v,
                  WriteUnlimited(f, v, value,
                      IF ibgn < 0 THEN stored[name] ELSE ibgn))))
    ELSE (IF ~FixedFits(n, value)
          THEN [same EXCEPT !.raised = "ValueError"]
          ELSE Counted(WithData(f, v, WriteFixed(n, value))))

\* ------------------------------------------------------ Lv1io.set_attr
\* np.string_(value) for a str, the value itself otherwise
AttrStored(val) ==
    IF val.kind = "str" THEN [kind |-> "bytes", v |-> val.v] ELSE val

\* The check of lines 202-211 that ds_name is present: "none" when it
\* passes, else the exception raised.
TargetPresent(f, ds_name) ==
    LET grp == PathParent(ds_name) IN
    IF grp # Dot
    THEN (CASE GetItem(f.level, grp) \in {"IndexError", "KeyError"}
                   -> GetItem(f.level, grp)
            [] GetItem(f.level, grp) = "variable" -> "AttributeError"
            [] OTHER -> IF PathName(ds_name) \in GroupVariables(f.level, grp)
                        THEN "none" ELSE "KeyError")
    ELSE (IF PathName(ds_name) \in FileGroups(f.level)
          THEN "none" ELSE "KeyError")

\* The result of set_attr(name, value, ds_name) on instance record p
\* holding file f.
Lv1io_set_attr(p, f, name, val, ds_name) ==
    IF p.fid = None
    THEN [raised |-> IF ds_name = NoTarget \/ PathParent(ds_name) = Dot
                     THEN "AttributeError" ELSE "TypeError",
          file |-> f]
    ELSE IF ~f.open THEN [raised |-> "RuntimeError", file |-> f]
    ELSE IF ds_name = NoTarget
    THEN [raised |-> "none",
          file |-> WithAttr(f, << >>, name, AttrStored(val))]
    ELSE IF TargetPresent(f, ds_name) # "none"
    THEN [raised |-> TargetPresent(f, ds_name), file |-> f]
    ELSE [raised |-> "none",
          file |-> WithAttr(f, Comps(ds_name), name, AttrStored(val))]


\* ------------------------------------------------------ Lv1io.get_attr
\* What get_attr returns for "return None"
NoValue == [kind |-> "none", v |-> 0]

\* getncattr(name) of one object of the file
AttrOf(f, obj, name) ==
    (CHOOSE a \in f.attrs : a[1] = obj /\ a[2] = name)[3]

\* res.decode('ascii') for bytes, res itself otherwise
AttrDecoded(val) ==
    IF val.kind = "bytes" THEN [kind |-> "str", v |-> val.v] ELSE val

\* The result of get_attr(name, ds_name) on instance record p holding file
\* f: the exception raised and the value returned.  The test of lines
\* 171-172 looks ds_name up among the names of the root group's groups and
\* variables, which a path of more than one component is not.
Lv1io_get_attr(p, f, name, ds_name) ==
    LET obj == IF ds_name = NoTarget THEN << >> ELSE Comps(ds_name) IN
    IF p.fid = None
    THEN [raised |-> "AttributeError", value |-> NoValue]
    ELSE IF ~f.open THEN [raised |-> "RuntimeError", value |-> NoValue]
    ELSE IF /\ ds_name # NoTarget
            /\ ~(Len(ds_name) = 1 /\ ds_name[1] \in FileGroups(f.level))
    THEN [raised |-> "none", value |-> NoValue]
    ELSE IF ~HasAttr(f, obj, name)
    THEN [raised |-> "AttributeError", value |-> NoValue]
    ELSE [raised |-> "none", value |-> AttrDecoded(AttrOf(f, obj, name))]


\* ------------------------------------------------- frac_poly, fill_nomhk
\* A temperature written by fill_nomhk: a constant of np.full, a value of
\* the polynomial at a raw count, or the NaN the polynomial gives at 0.
Kelvin(c) == <<"K", c>>

NaN == <<"nan", 0>>

\* frac_poly on one element: coefs[1] / 0.0 is inf and
\* (coefs[3] + coefs[4] * log(0.0)) * 0.0 ** 5 is inf * 0 = nan, so the sum
\* at a raw count of 0 is nan; at any other count it is the finite value of
\* the polynomial at that count.
frac_poly(x) == IF x = 0 THEN NaN ELSE <<"poly", x>>

\* One temperature channel of fill_nomhk (lines 468-473): np.full(size,
\* fallback) if all records of the batch have a raw count of 0, else
\* frac_poly applied to the whole column.
ChannelTemps(nomhk_data, field, fallback) ==
    IF \A j \in 1..Len(nomhk_data) : nomhk_data[j][field] = 0
    THEN [j \in 1..Len(nomhk_data) |-> Kelvin(fallback)]
    ELSE [j \in 1..Len(nomhk_data) |-> frac_poly(nomhk_data[j][field])]

\* The result of fill_nomhk(nomhk_data) on instance record p holding file
\* f: four set_dset calls, the first exception ending the method.
L1Aio_fill_nomhk(p, f, stored, nomhk_data) ==
    LET Arr(rows) == [scalar |-> FALSE, rows |-> rows]
        Then(r, var, rows) ==
            IF r.raised # "none" THEN r
            ELSE Lv1io_set_dset(p, r.file, r.stored,
                                K("engineering_data", var), Arr(rows),
                                DefaultIbgn)
        r0 == [raised |-> "none", file |-> f, stored |-> stored]
        r1 == Then(r0, "NomHK_telemetry", nomhk_data)
        r2 == Then(r1, "temp_detector",
                   ChannelTemps(nomhk_data, "TS1_DEM_N_T", 273))
        r3 == Then(r2, "temp_housing",
                   ChannelTemps(nomhk_data, "TS2_HOUSING_N_T", 293))
        r4 == Then(r3, "temp_radiator",
                   ChannelTemps(nomhk_data, "TS3_RADIATOR_N_T", 294))
    IN  IF Len(nomhk_data) = 0 THEN r0 ELSE r4


\* ------------------------------------------------------ L1Aio.fill_science
\* TMscience(img_hk) is not among the sources: its properties are modelled
\* as the column of the telemetry records that carries the parameter.
TMscience(img_hk, field) == [j \in 1..Len(img_hk) |-> img_hk[j][field]]

\* The result of fill_science(img_data, img_hk, img_id) on instance record
\* p holding file f: seven set_dset calls, the first exception ending the
\* method.
L1Aio_fill_science(p, f, stored, img_data, img_hk, img_id) ==
    LET Arr(rows) == [scalar |-> FALSE, rows |-> rows]
        Then(r, grp, var, rows) ==
            IF r.raised # "none" THEN r
            ELSE Lv1io_set_dset(p, r.file, r.stored, K(grp, var), Arr(rows),
                                DefaultIbgn)
        r0 == [raised |-> "none", file |-> f, stored |-> stored]
        r1 == Then(r0, "science_data", "detector_images", img_data)
        r2 == Then(r1, "science_data", "detector_telemetry", img_hk)
        r3 == Then(r2, "image_attributes", "image_ID", img_id)
        r4 == Then(r3, "image_attributes", "binning_table",
                   TMscience(img_hk, "binning_table"))
        r5 == Then(r4, "image_attributes", "digital_offset",
                   TMscience(img_hk, "digital_offset"))
        r6 == Then(r5, "image_attributes", "exposure_time",
                   TMscience(img_hk, "exposure_time"))
        r7 == Then(r6, "image_attributes", "nr_coadditions",
                   TMscience(img_hk, "nr_coadditions"))
    IN  IF Len(img_hk) = 0 THEN r0 ELSE r7

\* ------------------------------------------------------ L1Aio.fill_demhk
\* fill_demhk as it would be without the test for an empty array (lines
\* 507-508)
L1Aio_fill_demhk_noguard(p, f, stored, demhk_data) ==
    Lv1io_set_dset(p, f, stored, K("engineering_data", "DemHK_telemetry"),
                   [scalar |-> FALSE, rows |-> demhk_data], DefaultIbgn)

\* The result of fill_demhk(demhk_data) on instance record p holding file f
L1Aio_fill_demhk(p, f, stored, demhk_data) ==
    IF Len(demhk_data) = 0
    THEN [raised |-> "none", file |-> f, stored |-> stored]
    ELSE Lv1io_set_dset(p, f, stored,
                        K("engineering_data", "DemHK_telemetry"),
                        [scalar |-> FALSE, rows |-> demhk_data], DefaultIbgn)

\* ------------------------------------------------------- check_stored
\* One block of check_stored as it would be with the allow_empty branch
\* (lines 395-396, 410-411) left out.
WarnBlock_strict(key_list, counted, stored, dim_sz, allow_empty) ==
    LET res == [i \in 1..Len(counted) |-> stored[counted[i]]]
        Off(i) == res[i] # dim_sz
        indx == SelectSeq([i \in 1..Len(res) |-> i], Off)
    IN  [j \in 1..Len(indx) |-> <<key_list[indx[j]], res[indx[j]]>>]

\* One block of check_stored: res holds the counters of the keys `counted`,
\* indx the positions of res that differ from dim_sz (and are not 0 when
\* allow_empty), and each position ii prints key_list[ii] and res[ii].
\* The result is the sequence of <<name, count>> pairs printed.
WarnBlock(key_list, counted, stored, dim_sz, allow_empty) ==
    LET res == [i \in 1..Len(counted) |-> stored[counted[i]]]
        Off(i) == IF allow_empty
                  THEN res[i] > 0 /\ res[i] # dim_sz
                  ELSE res[i] # dim_sz
        indx == SelectSeq([i \in 1..Len(res) |-> i], Off)
    IN  [j \in 1..Len(indx) |-> <<key_list[indx[j]], res[indx[j]]>>]

\* L1Aio.check_stored(allow_empty): the warnings printed.
L1Aio_check_stored(f, stored, allow_empty) ==
    LET IsImage(k) == k[2] \in {"science_data", "image_attributes"}
        IsHk(k) == k[2] = "engineering_data"
        img == SelectSeq(L1A_keys, IsImage)
        hk == SelectSeq(L1A_keys, IsHk)
    IN  WarnBlock(img, img, stored, DimSize(f, "row"), allow_empty)
          \o WarnBlock(hk, hk, stored, DimSize(f, "aux"), allow_empty)

\* L1Bio.check_stored and L1Cio.check_stored (the same code over the keys of
\* the class): the first block leaves /SENSOR_VIEWS_BANDS/viewport_index out
\* of res but not out of key_list.
L1Bio_check_stored(f, stored, keys) ==
    LET IsSvb(k) == k[2] = "SENSOR_VIEWS_BANDS"
        NotSvb(k) == k[2] # "SENSOR_VIEWS_BANDS"
        NotViewport(k) == k # K("SENSOR_VIEWS_BANDS", "viewport_index")
        svb == SelectSeq(keys, IsSvb)
        rest == SelectSeq(keys, NotSvb)
    IN  WarnBlock(svb, SelectSeq(svb, NotViewport), stored,
                  DimSize(f, "aux"), FALSE)
          \o WarnBlock(rest, rest, stored, DimSize(f, "row"), FALSE)

\* The check_stored call in the close() of each class: L1A passes
\* allow_empty=True (line 357), L1B and L1C have no such parameter.
CheckOf(level, f, stored) ==
    CASE level = "L1A" -> L1Aio_check_stored(f, stored, TRUE)
      [] level = "L1B" -> L1Bio_check_stored(f, stored, L1B_keys)
      [] level = "L1C" -> L1Bio_check_stored(f, stored, L1C_keys)

\* --------------------------------------------------------------- close
\* L1A: datetime(year, month, day) + timedelta(seconds=float(dset[i].data)),
\* shown by isoformat(timespec='milliseconds'): the microseconds cut to
\* milliseconds.
L1A_coverage(t) == MaskedData(t) \div 1000

\* L1B, L1C: epoch + timedelta(seconds=int(secnd))
\*                 + timedelta(microseconds=int(secnd % 1)):
\* the whole seconds (int(secnd % 1) is 0), shown in milliseconds.
L1B_coverage(t) == (MaskedData(t) \div 1000000) * 1000

\* The value of a time-coverage attribute: an ISO-8601 string.
Iso(ms) == [kind |-> "str", v |-> ms]

\* The file with time_coverage_start and time_coverage_end set from the
\* first and the last entry of the time variable.
WithCoverage(f, start, end) ==
    WithAttr(WithAttr(f, << >>, "time_coverage_start", Iso(start)),
             << >>, "time_coverage_end", Iso(end))

\* self.fid.close(); self.fid = None
Released(f, warnings) ==
    [raised |-> "none", file |-> [f EXCEPT !.open = FALSE], fid |-> None,
     warnings |-> warnings]

\* L1Aio.close() as it would be without "self.fid = None" (lines 353, 373):
\* the instance keeps the handle of the closed file.
L1Aio_close_keepfid(p, f, stored) ==
    IF p.fid = None
    THEN [raised |-> "none", file |-> f, fid |-> None, warnings |-> << >>]
    ELSE IF ~f.open
    THEN [raised |-> "RuntimeError", file |-> f, fid |-> p.fid,
          warnings |-> << >>]
    ELSE IF DimSize(f, "row") = 0
    THEN [Released(f, << >>) EXCEPT !.fid = p.fid]
    ELSE [Released(
            WithCoverage(f,
                L1A_coverage(Elem(f, TimeVar("L1A"), 1)),
                L1A_coverage(Elem(f, TimeVar("L1A"), DimSize(f, "row")))),
            L1Aio_check_stored(f, stored, TRUE)) EXCEPT !.fid = p.fid]

\* L1Aio.close() as it would be without the test of lines 347-348:
\* self.fid.dimensions is evaluated on None.
L1Aio_close_noguard(p, f, stored) ==
    IF p.fid = None
    THEN [raised |-> "AttributeError", file |-> f, fid |-> None,
          warnings |-> << >>]
    ELSE IF ~f.open
    THEN [raised |-> "RuntimeError", file |-> f, fid |-> p.fid,
          warnings |-> << >>]
    ELSE IF DimSize(f, "row") = 0
    THEN Released(f, << >>)
    ELSE Released(
            WithCoverage(f,
                L1A_coverage(Elem(f, TimeVar("L1A"), 1)),
                L1A_coverage(Elem(f, TimeVar("L1A"), DimSize(f, "row")))),
            L1Aio_check_stored(f, stored, TRUE))

\* L1Aio.close() on instance record p holding file f
L1Aio_close(p, f, stored) ==
    IF p.fid = None
    THEN [raised |-> "none", file |-> f, fid |-> None, warnings |-> << >>]
    ELSE IF ~f.open
    THEN [raised |-> "RuntimeError", file |-> f, fid |-> p.fid,
          warnings |-> << >>]
    ELSE IF DimSize(f, "row") = 0
    THEN Released(f, << >>)
    ELSE Released(
            WithCoverage(f,
                L1A_coverage(Elem(f, TimeVar("L1A"), 1)),
                L1A_coverage(Elem(f, TimeVar("L1A"), DimSize(f, "row")))),
            L1Aio_check_stored(f, stored, TRUE))

\* L1Bio.close() on instance record p holding file f
L1Bio_close(p, f, stored) ==
    IF p.fid = None
    THEN [raised |-> "none", file |-> f, fid |-> None, warnings |-> << >>]
    ELSE IF ~f.open
    THEN [raised |-> "RuntimeError", file |-> f, fid |-> p.fid,
          warnings |-> << >>]
    ELSE IF DimSize(f, "row") = 0
    THEN Released(f, << >>)
    ELSE Released(
            WithCoverage(f,
                L1B_coverage(Elem(f, TimeVar("L1B"), 1)),
                L1B_coverage(Elem(f, TimeVar("L1B"), DimSize(f, "row")))),
            L1Bio_check_stored(f, stored, L1B_keys))

\* L1Cio.close() on instance record p holding file f
L1Cio_close(p, f, stored) ==
    IF p.fid = None
    THEN [raised |-> "none", file |-> f, fid |-> None, warnings |-> << >>]
    ELSE IF ~f.open
    THEN [raised |-> "RuntimeError", file |-> f, fid |-> p.fid,
          warnings |-> << >>]
    ELSE IF DimSize(f, "row") = 0
    THEN Released(f, << >>)
    ELSE Released(
            WithCoverage(f,
                L1B_coverage(Elem(f, TimeVar("L1C"), 1)),
                L1B_coverage(Elem(f, TimeVar("L1C"), DimSize(f, "row")))),
            L1Bio_check_stored(f, stored, L1C_keys))

\* The close() of the class of instance record p
CloseOf(p, f, stored) ==
    CASE p.level = "L1A" -> L1Aio_close(p, f, stored)
      [] p.level = "L1B" -> L1Bio_close(p, f, stored)
      [] p.level = "L1C" -> L1Cio_close(p, f, stored)

\* __exit__ as it would be without the call of close() (line 126).
Lv1io_exit_noclose(p, f, stored, exc) ==
    [raised |-> exc, closed |-> FALSE, file |-> f, fid |-> p.fid,
     warnings |-> << >>]

\* Lv1io.__exit__ with exc the exception raised in the with block ("none"
\* on the normal path): close() is called and False is returned, so that
\* the with statement raises exc again; an exception of close() itself
\* takes its place.
Lv1io_exit(p, f, stored, exc) ==
    LET c == CloseOf(p, f, stored) IN
    [raised |-> IF c.raised # "none" THEN c.raised ELSE exc,
     closed |-> c.raised = "none",
     file |-> c.file, fid |-> c.fid, warnings |-> c.warnings]


\* ------------------------------------------------------ the Packet Grouper
\* ccsds.group(packet_list) of the conversion script.  The module
\* pyspex.ccsds_io is not among the sources; the Grouper is modelled on its
\* contract (accumulation buffer keyed by APID, see the section on the Packet
\* Grouper), and what the script does with the packets it returns is
\* modelled on the script.
MaxPackets == 4
MaxPayload == 2

APIDs == {1, 2}

\* the 2 bits sequence-flags of the primary header
CONTINUATION == 0
FIRST == 1
LAST == 2
STANDALONE == 3
SeqFlags == {FIRST, CONTINUATION, LAST, STANDALONE}

\* the field 'sequence' of the primary header is 16 bits wide: the 2 bits
\* sequence-flags followed by the 14 bits sequence-count
CounterSize == 16384
Sequence(flag, count) == flag * CounterSize + (count % CounterSize)
FlagsOf(pkt) == pkt.primary_header.sequence \div CounterSize
CountOf(pkt) == pkt.primary_header.sequence % CounterSize
ApidOf(pkt) == pkt.primary_header.apid

\* the k-th raw packet of the stream: the sequence-count and the time stamp
\* advance with every packet (the counter wraps around within the stream),
\* and byte j of its payload is written <<k, j>>
CountBase == CounterSize - 2
TimeBase == 1000
\* sub_sec counts 1 / 2^16 s: every other packet falls on a half second
SubSecSize == 65536
SubSecHalf == 32768
RawPacket(k, apid, flag, len) ==
    [primary_header |-> [apid |-> apid,
                         sequence |-> Sequence(flag, CountBase + k)],
     secondary_header |-> [tai_sec |-> TimeBase + k,
                           sub_sec |-> (k % 2) * SubSecHalf],
     payload |-> [j \in 1..len |-> <<k, j>>]]

NoRun == [open |-> FALSE, primary_header |-> [apid |-> 0, sequence |-> 0],
          secondary_header |-> [tai_sec |-> 0, sub_sec |-> 0],
          payload |-> << >>]

GrouperInit ==
    [read |-> << >>, buffer |-> [a \in APIDs |-> NoRun], out |-> << >>,
     raised |-> "none"]

\* the Logical Packet of a completed run: the headers of its first raw
\* packet and the concatenated payload
LogicalPacket(first, payload) ==
    [primary_header |-> first.primary_header,
     secondary_header |-> first.secondary_header,
     payload |-> payload]

\* a FIRST that would continue the run already open instead of replacing it
OnFirst_keep(g, pkt) ==
    IF g.buffer[ApidOf(pkt)].open
    THEN [g EXCEPT !.buffer[ApidOf(pkt)].payload = @ \o pkt.payload]
    ELSE [g EXCEPT !.buffer[ApidOf(pkt)] =
             [open |-> TRUE, primary_header |-> pkt.primary_header,
              secondary_header |-> pkt.secondary_header,
              payload |-> pkt.payload]]

\* FIRST: start or replace the buffer of the APID
OnFirst(g, pkt) ==
    [g EXCEPT !.buffer[ApidOf(pkt)] =
        [open |-> TRUE, primary_header |-> pkt.primary_header,
         secondary_header |-> pkt.secondary_header,
         payload |-> pkt.payload]]

\* a CONTINUATION whose payload would be left out of the run
OnContinuation_skip(g, pkt) == g

\* a CONTINUATION that would open a run when none is open
OnContinuation_open(g, pkt) ==
    IF g.buffer[ApidOf(pkt)].open
    THEN [g EXCEPT !.buffer[ApidOf(pkt)].payload = @ \o pkt.payload]
    ELSE [g EXCEPT !.buffer[ApidOf(pkt)] =
             [open |-> TRUE, primary_header |-> pkt.primary_header,
              secondary_header |-> pkt.secondary_header,
              payload |-> pkt.payload]]

\* a CONTINUATION that would be appended to the open runs of all APIDs
OnContinuation_any(g, pkt) ==
    [g EXCEPT !.buffer = [a \in APIDs |->
        IF @[a].open THEN [@[a] EXCEPT !.payload = @ \o pkt.payload]
        ELSE @[a]]]

\* CONTINUATION: append to the open run of the APID, else discard the packet
OnContinuation(g, pkt) ==
    IF g.buffer[ApidOf(pkt)].open
    THEN [g EXCEPT !.buffer[ApidOf(pkt)].payload = @ \o pkt.payload]
    ELSE g

\* a LAST that would put the completed Logical Packet in front of the others
OnLast_front(g, pkt) ==
    LET run == g.buffer[ApidOf(pkt)]
    IN  IF run.open
        THEN [g EXCEPT
                 !.out = <<[primary_header |-> run.primary_header,
                            secondary_header |-> run.secondary_header,
                            payload |-> run.payload \o pkt.payload]>> \o @,
                 !.buffer[ApidOf(pkt)] = NoRun]
        ELSE g

\* a LAST that would tag the Logical Packet with its own headers
OnLast_own(g, pkt) ==
    LET run == g.buffer[ApidOf(pkt)]
    IN  IF run.open
        THEN [g EXCEPT
                 !.out = Append(@, [primary_header |-> pkt.primary_header,
                                    secondary_header |-> pkt.secondary_header,
                                    payload |-> run.payload \o pkt.payload]),
                 !.buffer[ApidOf(pkt)] = NoRun]
        ELSE g

\* LAST: append, emit the completed Logical Packet and clear the buffer; a
\* LAST without an open run is the end of a run whose start was lost
OnLast(g, pkt) ==
    LET run == g.buffer[ApidOf(pkt)]
    IN  IF run.open
        THEN [g EXCEPT
                 !.out = Append(@, LogicalPacket(run,
                                                 run.payload \o pkt.payload)),
                 !.buffer[ApidOf(pkt)] = NoRun]
        ELSE g

\* STANDALONE: emit at once as a Logical Packet of one raw packet
OnStandalone(g, pkt) ==
    [g EXCEPT !.out = Append(@, LogicalPacket(pkt, pkt.payload))]

\* one pass of the loop of group() over the raw packets
GroupStep(g, pkt) ==
    LET h == [g EXCEPT !.read = Append(@, pkt)]
    IN  CASE FlagsOf(pkt) = FIRST -> OnFirst(h, pkt)
          [] FlagsOf(pkt) = CONTINUATION -> OnContinuation(h, pkt)
          [] FlagsOf(pkt) = LAST -> OnLast(h, pkt)
          [] FlagsOf(pkt) = STANDALONE -> OnStandalone(h, pkt)

\* group(packet_list)
RECURSIVE group(_)
group(packet_list) ==
    IF packet_list = << >> THEN GrouperInit
    ELSE GroupStep(group(SubSeq(packet_list, 1, Len(packet_list) - 1)),
                   packet_list[Len(packet_list)])

\* the image identifier as it would be without the mask 0x3fff
ImageId_unmasked(packet) == packet.primary_header.sequence

\* what the script takes from a packet that group() returned
ImageId(packet) == packet.primary_header.sequence % CounterSize
TaiSec(packet) == packet.secondary_header.tai_sec


\* ------------------------------------------------- main() of the script
\* The files named on the command line: a name is a stem and a suffix, and
\* names are ordered as strings ('f1.H' < 'f1.bin' < 'f2.H' < ...).
MaxFiles == 3
PacketsPerFile == 2

FileNames == [stem : 1..MaxFiles, suffix : {".bin", ".H"}]
NameKey(flname) == 2 * flname.stem + (IF flname.suffix = ".H" THEN 0 ELSE 1)

\* sorted(file_list)
RECURSIVE InsertSorted(_, _)
InsertSorted(flname, s) ==
    IF s = << >> THEN <<flname>>
    ELSE IF NameKey(flname) < NameKey(Head(s)) THEN <<flname>> \o s
    ELSE <<Head(s)>> \o InsertSorted(flname, Tail(s))

RECURSIVE sorted(_)
sorted(file_list) ==
    IF file_list = << >> THEN << >>
    ELSE InsertSorted(file_list[Len(file_list)],
                      sorted(SubSeq(file_list, 1, Len(file_list) - 1)))

\* What is on disk: the file with stem s was recorded in time slot disk[s],
\* and holds a segmented packet (stem 1) or a STANDALONE packet.
Disks == {d \in [1..MaxFiles -> 1..MaxFiles] :
             \A a, b \in 1..MaxFiles : a # b => d[a] # d[b]}
FileFlags(stem) == IF stem = 1 THEN <<FIRST, LAST>> ELSE <<STANDALONE>>

\* ccsds.read(flname): the packets of the file
CCSDSio_read(disk, flname) ==
    [n \in 1..Len(FileFlags(flname.stem)) |->
        RawPacket(PacketsPerFile * (disk[flname.stem] - 1) + n, 1,
                  FileFlags(flname.stem)[n], 1)]

\* the time stamp of a grouped packet, in milliseconds since EPOCH
LEAP_SECONDS == 27
Tstamp(packet) ==
    (packet.secondary_header.tai_sec - LEAP_SECONDS) * 1000
        + (packet.secondary_header.sub_sec * 1000) \div SubSecSize

ScriptInit ==
    [pc |-> "args", file_list |-> << >>, disk |-> [s \in 1..MaxFiles |-> s],
     todo |-> << >>, packet_list |-> << >>, tstamp |-> << >>,
     image_id |-> << >>, raised |-> "none"]

\* parse_args and the set-up of the loop over sorted(args.file_list)
Main_args(file_list, disk) ==
    [ScriptInit EXCEPT !.pc = "read", !.file_list = file_list,
                       !.disk = disk, !.todo = sorted(file_list)]

\* one pass of the loop over the files; when the files are exhausted, the
\* test for an empty packet list
Main_read(sc) ==
    IF sc.todo = << >>
    THEN [sc EXCEPT !.pc = IF sc.packet_list = << >> THEN "return"
                           ELSE "group"]
    ELSE LET flname == Head(sc.todo)
         IN  IF flname.suffix = ".H"
             THEN [sc EXCEPT !.todo = Tail(@)]
             ELSE [sc EXCEPT !.todo = Tail(@),
                             !.packet_list = @ \o CCSDSio_read(sc.disk, flname)]

\* ccsds.group(packet_list) and the loop over the grouped packets
Main_group(sc) ==
    LET packets == group(sc.packet_list).out
    IN  [sc EXCEPT !.pc = "product",
                   !.tstamp = [i \in 1..Len(packets) |-> Tstamp(packets[i])],
                   !.image_id = [i \in 1..Len(packets) |-> ImageId(packets[i])]]


\* The parameters of Lv1io.__init__, which L1Aio inherits, those without a
\* default value, and the methods of L1Aio.
InitParams == <<"product", "ref_date", "dims", "append">>
InitRequired == {"product", "ref_date", "dims"}
L1AioMethods ==
    {"close", "epoch", "get_dim", "get_attr", "set_attr", "get_dset",
     "set_dset", "fill_global_attrs", "check_stored", "fill_science",
     "fill_nomhk", "fill_demhk"}

\* The binding of a call with npos positional arguments and the keyword
\* arguments kw to the parameters: "none" when the call is accepted.
Bind(params, required, npos, kw) ==
    IF \/ npos > Len(params)
       \/ ~(kw \subseteq Range(params))
       \/ \E i \in 1..npos : i <= Len(params) /\ params[i] \in kw
       \/ ~(required \subseteq ({params[i] : i \in 1..npos} \cup kw))
    THEN "TypeError" ELSE "none"

\* the call L1Aio(prod_name, dims=dims, inflight=inflight) of the script
Main_new == Bind(InitParams, InitRequired, 1, {"dims", "inflight"})

\* --------------------------------------------------------------- the state
VARIABLES
    dset_stored,  \* the class attribute dset_stored of L1Aio, L1Bio, L1Cio
    prod,         \* the product instances constructed so far
    files,        \* the product files on disk
    call,         \* the call made last and how it ended
    hist,         \* per counter: its value when it was last initialised and
                  \* the rows of each successful set_dset since
    grouper,      \* the Packet Grouper: the raw packets consumed so far, the
                  \* accumulation buffer per APID and the Logical Packets emitted
    script        \* main() of spx1_ccsds2l1a.py: its arguments, its position
                  \* and its local variables
vars == <<dset_stored, prod, files, call, hist, grouper, script>>

Products == 1..MaxProducts

\* An instance that is not constructed yet.
NoProduct ==
    [level |-> "none", product |-> 0, fid |-> None, scope |-> "none",
     closed |-> FALSE]

\* ------------------------------------------------------------- the inputs
\* Time values in microseconds: with and without a part below the second
\* and below the millisecond.
TimeVals == {1500700, 2000000}

\* The payload of a row of a variable other than the time variable.
Payload == {7}

\* A variable of the row dimension other than the time variable.
DataVar(level) ==
    IF level = "L1A" THEN <<"science_data", "detector_images">>
    ELSE <<"OBSERVATION_DATA", "I">>

\* A variable of the other dimension (hk_packets, number_of_views).
AuxVar(level) ==
    IF level = "L1A" THEN <<"engineering_data", "HK_tlm_time">>
    ELSE <<"SENSOR_VIEWS_BANDS", "view_angles">>

\* The tracked names set_dset is called with.
GoodNames(level) ==
    {<<"/">> \o TimeVar(level), <<"/">> \o DataVar(level)}

\* Names of no variable of the file: in a group of the file, in no group of
\* the file, and without a group.
BadNames(level) ==
    {<<"/", DataVar(level)[1], "nonexistent">>, <<"/", "nogroup", "var">>,
     <<"dataset">>}

SeqsUpTo(S, n) == UNION {[1..k -> S] : k \in 1..n}

\* Values of set_dset with rows drawn from P: arrays of 1..MaxRows rows,
\* and scalars.
WriteValues(P) ==
    {[scalar |-> FALSE, rows |-> r] : r \in SeqsUpTo(P, MaxRows)}
        \cup {[scalar |-> TRUE, rows |-> <<x>>] : x \in P}

\* The values set_dset is called with in the life cycle of a product, where
\* the time values written do not matter: one time value, and one value for
\* a name of no variable.
ValuesOf(level, name) ==
    IF name \in BadNames(level)
    THEN {[scalar |-> FALSE, rows |-> <<7>>]}
    ELSE WriteValues(IF Comps(name) = TimeVar(level)
                     THEN {2000000} ELSE Payload)

\* The start indices set_dset is called with: the default (append) and, for
\* the data variable, the first row.
IbgnOf(level, name) ==
    IF Comps(name) = DataVar(level) THEN {DefaultIbgn, 0} ELSE {DefaultIbgn}

\* The dims of a new product: the row dimension unlimited (0) or fixed; the
\* other dimension as the products have it (hk_packets unlimited,
\* number_of_views fixed).
DimChoices(level) ==
    {[row |-> r, aux |-> IF level = "L1A" THEN 0 ELSE FixedViews] :
        r \in {0, FixedRows}}

AttrNames == {"title"}

AttrValues == {[kind |-> "str", v |-> 1], [kind |-> "int", v |-> 1]}

\* The ds_name values set_attr is called with.
Targets(level) ==
    {NoTarget, <<DataVar(level)[1]>>, <<"/">> \o DataVar(level),
     <<"nogroup">>, <<"/", "nogroup", "x">>,
     <<"/", DataVar(level)[1], "nonexistent">>}

\* -------------------------------------------------------------------- Init
NoCall ==
    [op |-> "none", inst |-> 0, level |-> "none", name |-> NoTarget,
     scalar |-> FALSE, rows |-> 0, append |-> FALSE, exc |-> "none", wasClosed |-> FALSE,
     attr |-> "", value |-> NoValue,
     raised |-> "none", warnings |-> << >>]

Init ==
    /\ dset_stored = [l \in Levels |-> [k \in Keys(l) |-> 0]]
    /\ prod = [i \in Products |-> NoProduct]
    /\ files = [i \in Products |-> NoFile]
    /\ call = NoCall
    /\ hist = [l \in Levels |->
                 [k \in GoodNames(l) |-> [base |-> 0, calls |-> << >>]]]
    /\ grouper = GrouperInit
    /\ script = ScriptInit

\* ----------------------------------------------------------------- actions
FileOf(i) == IF prod[i].fid = None THEN NoFile ELSE files[prod[i].fid]

PutFile(i, f) ==
    IF prod[i].fid = None THEN files ELSE [files EXCEPT ![prod[i].fid] = f]

\* Products are processed one after the other: the next instance is
\* constructed when the handles of the earlier ones are released.
Free(i) ==
    /\ prod[i].level = "none"
    /\ \A j \in 1..(i - 1) : prod[j].level # "none" /\ prod[j].fid = None

\* The products of one run are of one class: products of different classes
\* share neither a dset_stored table nor a file.
SameClass(i, level) ==
    level \in Levels => \A j \in 1..(i - 1) : prod[j].level = level

CallOn(i, op) ==
    [NoCall EXCEPT !.op = op, !.inst = i, !.level = prod[i].level,
                   !.wasClosed = prod[i].closed]

\* with L1Aio(product, ref_date, dims) as l1a: (or L1Bio, L1Cio, Lv1io)
New(i, level, dims) ==
    /\ Free(i)
    /\ SameClass(i, level)
    /\ LET r == Lv1io_init(level, dims, FALSE, NoFile,
                   IF level \in Levels THEN dset_stored[level] ELSE << >>)
       IN  /\ call' = [NoCall EXCEPT !.op = "init", !.inst = i,
                          !.level = level, !.raised = r.raised]
           /\ IF r.raised = "none"
              THEN /\ prod' = [prod EXCEPT ![i] =
                        [level |-> level, product |-> i, fid |-> i,
                         scope |-> "in", closed |-> FALSE]]
                   /\ files' = [files EXCEPT ![i] = r.file]
                   /\ dset_stored' = [dset_stored EXCEPT ![level] = r.stored]
              ELSE UNCHANGED <<prod, files, dset_stored>>
           /\ UNCHANGED <<hist, grouper, script>>

\* with L1Aio(product, ref_date, dims, append=True) as l1a: on the released
\* file j of the same processing level
NewAppend(i, j) ==
    /\ Free(i)
    /\ files[j].level \in Levels
    /\ ~files[j].open
    /\ LET level == files[j].level
           r == Lv1io_init(level, files[j].fixed, TRUE, files[j],
                           dset_stored[level])
       IN  /\ call' = [NoCall EXCEPT !.op = "init", !.inst = i,
                          !.level = level, !.append = TRUE,
                          !.raised = r.raised]
           /\ prod' = [prod EXCEPT ![i] =
                 [level |-> level, product |-> j, fid |-> j,
                  scope |-> "in", closed |-> FALSE]]
           /\ files' = [files EXCEPT ![j] = r.file]
           /\ dset_stored' = [dset_stored EXCEPT ![level] = r.stored]
           /\ hist' = [hist EXCEPT ![level] =
                 [k \in GoodNames(level) |->
                     [base |-> r.stored[k], calls |-> << >>]]]
           /\ UNCHANGED <<grouper, script>>

\* set_dset(name, value, ibgn) on instance i: all of the state but hist
SetDsetCall(i, name, value, ibgn) ==
    /\ prod[i].level \in Levels
    /\ LET level == prod[i].level
           r == Lv1io_set_dset(prod[i], FileOf(i), dset_stored[level],
                               name, value, ibgn)
       IN  /\ name \in DOMAIN r.stored => r.stored[name] <= MaxStored
           /\ call' = [CallOn(i, "set_dset") EXCEPT
                          !.name = name, !.scalar = value.scalar,
                          !.rows = Len(value.rows),
                          !.raised = r.raised]
           /\ files' = PutFile(i, r.file)
           /\ dset_stored' = [dset_stored EXCEPT ![level] = r.stored]
           /\ UNCHANGED <<prod, grouper, script>>

\* set_dset(name, value, ibgn) on instance i
SetDset(i, name, value, ibgn) ==
    /\ SetDsetCall(i, name, value, ibgn)
    /\ UNCHANGED hist

\* set_dset(name, value, ibgn) on instance i, with the rows of a successful
\* call on a tracked name logged in hist
SetDsetLogged(i, name, value, ibgn) ==
    /\ SetDsetCall(i, name, value, ibgn)
    /\ hist' = IF call'.raised = "none" /\ name \in GoodNames(prod[i].level)
               THEN [hist EXCEPT ![prod[i].level][name].calls =
                        Append(@, NRows(value))]
               ELSE hist


\* set_attr(name, value, ds_name) on instance i
SetAttr(i, name, val, ds_name) ==
    /\ prod[i].level \in Levels
    /\ LET r == Lv1io_set_attr(prod[i], FileOf(i), name, val, ds_name)
       IN  /\ call' = [CallOn(i, "set_attr") EXCEPT
                          !.name = ds_name, !.attr = name, !.value = val,
                          !.raised = r.raised]
           /\ files' = PutFile(i, r.file)
           /\ UNCHANGED <<prod, dset_stored, hist, grouper, script>>

\* get_attr(name, ds_name) on instance i
GetAttr(i, name, ds_name) ==
    /\ prod[i].level \in Levels
    /\ LET r == Lv1io_get_attr(prod[i], FileOf(i), name, ds_name)
       IN  /\ call' = [CallOn(i, "get_attr") EXCEPT
                          !.name = ds_name, !.attr = name,
                          !.value = r.value, !.raised = r.raised]
           /\ UNCHANGED <<prod, files, dset_stored, hist, grouper, script>>

\* close() on instance i
Close(i) ==
    /\ prod[i].level \in Levels
    /\ LET r == CloseOf(prod[i], FileOf(i), dset_stored[prod[i].level])
       IN  /\ call' = [CallOn(i, "close") EXCEPT
                          !.raised = r.raised, !.warnings = r.warnings]
           /\ files' = PutFile(i, r.file)
           /\ prod' = [prod EXCEPT
                          ![i].fid = r.fid,
                          ![i].closed = @ \/ r.raised = "none"]
           /\ UNCHANGED <<dset_stored, hist, grouper, script>>

\* The exceptions that leave the with block of instance i now: the one the
\* call made last on i has raised, when the block does not catch it.
Leaving(i) ==
    IF call.inst = i /\ call.op # "init" /\ call.raised # "none"
    THEN {call.raised} ELSE {}

\* Control leaves the with block of instance i, normally (exc is "none") or
\* with exception exc: __exit__ runs.
Exit(i, exc) ==
    /\ prod[i].scope = "in"
    /\ LET r == Lv1io_exit(prod[i], FileOf(i), dset_stored[prod[i].level],
                           exc)
       IN  /\ call' = [CallOn(i, "exit") EXCEPT
                          !.exc = exc,
                          !.raised = r.raised, !.warnings = r.warnings]
           /\ files' = PutFile(i, r.file)
           /\ prod' = [prod EXCEPT
                          ![i].fid = r.fid,
                          ![i].closed = @ \/ r.closed,
                          ![i].scope = "out"]
           /\ UNCHANGED <<dset_stored, hist, grouper, script>>

\* The instances whose constructor has returned.
Constructed == {i \in Products : prod[i].level \in Levels}

\* The product life cycle: construction, writes, close, with blocks.
Next ==
    \/ \E i \in Products, level \in Levels \cup {UnknownLevel} :
          \E dims \in DimChoices(level) : New(i, level, dims)
    \/ \E i \in Products, j \in Products : NewAppend(i, j)
    \/ \E i \in Constructed :
          \E name \in GoodNames(prod[i].level) \cup BadNames(prod[i].level) :
             \E value \in ValuesOf(prod[i].level, name),
                ibgn \in IbgnOf(prod[i].level, name) :
                SetDset(i, name, value, ibgn)
    \/ \E i \in Constructed : Close(i)
    \/ \E i \in Constructed : \E exc \in {"none"} \cup Leaving(i) : Exit(i, exc)

Spec == Init /\ [][Next]_vars

\* Appending writes to the unlimited row dimension of new products, with the
\* rows of every successful write logged.
NextRoundTrip ==
    \/ \E i \in Products, level \in Levels :
          \E dims \in {d \in DimChoices(level) : d.row = 0} :
             New(i, level, dims)
    \/ \E i \in Constructed :
          \E name \in GoodNames(prod[i].level) :
             \E value \in ValuesOf(prod[i].level, name) :
                SetDsetLogged(i, name, value, DefaultIbgn)
    \/ \E i \in Constructed : Close(i)

SpecRoundTrip == Init /\ [][NextRoundTrip]_vars

\* Attributes written to and read from one new product, before and after
\* close().
NextAttr ==
    \/ \E level \in Levels :
          \E dims \in {d \in DimChoices(level) : d.row = 0} :
             New(1, level, dims)
    \/ \E i \in Constructed :
          \E name \in AttrNames, val \in AttrValues,
             ds_name \in Targets(prod[i].level) :
                SetAttr(i, name, val, ds_name)
    \/ \E i \in Constructed :
          \E name \in AttrNames, ds_name \in Targets(prod[i].level) :
             GetAttr(i, name, ds_name)
    \/ \E i \in Constructed : Close(i)

SpecAttr == Init /\ [][NextAttr]_vars

\* A product written and closed, then opened again in append mode and
\* written without a start index: every write is an appending one, on a row
\* dimension that is unlimited.
NextAppend ==
    \/ \E level \in Levels :
          \E dims \in {d \in DimChoices(level) : d.row = 0} :
             New(1, level, dims)
    \/ \E i \in Products, j \in Products : NewAppend(i, j)
    \/ \E i \in Constructed :
          \E name \in GoodNames(prod[i].level) :
             \E value \in ValuesOf(prod[i].level, name) :
                SetDset(i, name, value, DefaultIbgn)
    \/ \E i \in Constructed : Close(i)

SpecAppend == Init /\ [][NextAppend]_vars

\* The time variable of one new product written with times that have a part
\* below the second and below the millisecond, in any order, then close().
NextCoverage ==
    \/ \E level \in Levels :
          \E dims \in DimChoices(level) : New(1, level, dims)
    \/ \E i \in Constructed :
          \E value \in WriteValues(TimeVals) :
             SetDset(i, <<"/">> \o TimeVar(prod[i].level), value,
                     DefaultIbgn)
    \/ \E i \in Constructed : Close(i)

SpecCoverage == Init /\ [][NextCoverage]_vars

\* Raw counts of a temperature sensor: absent (0) and present.
RawCounts == {0, 5}

\* The NomHK records of a batch, and batches of 0..MaxRows records.
NomhkRecords ==
    [TS1_DEM_N_T : RawCounts, TS2_HOUSING_N_T : RawCounts,
     TS3_RADIATOR_N_T : RawCounts]

NomhkBatches == {<< >>} \cup SeqsUpTo(NomhkRecords, MaxRows)

\* fill_nomhk(nomhk_data) on instance i
FillNomhk(i, nomhk_data) ==
    /\ prod[i].level = "L1A"
    /\ LET r == L1Aio_fill_nomhk(prod[i], FileOf(i), dset_stored["L1A"],
                                 nomhk_data)
       IN  /\ \A k \in Keys("L1A") : r.stored[k] <= MaxStored
           /\ call' = [CallOn(i, "fill_nomhk") EXCEPT
                          !.rows = Len(nomhk_data), !.raised = r.raised]
           /\ files' = PutFile(i, r.file)
           /\ dset_stored' = [dset_stored EXCEPT !["L1A"] = r.stored]
           /\ UNCHANGED <<prod, hist, grouper, script>>

\* Batches of housekeeping records written to one new L1A product, before
\* and after close().
NextNomhk ==
    \/ \E dims \in DimChoices("L1A") : New(1, "L1A", dims)
    \/ \E i \in Constructed : \E nomhk_data \in NomhkBatches :
          FillNomhk(i, nomhk_data)
    \/ \E i \in Constructed : Close(i)

SpecNomhk == Init /\ [][NextNomhk]_vars

\* Products for the consistency check of close(): the time variable and a
\* variable of the other dimension are written; for L1B and L1C a variable
\* that stands behind viewport_index in the table.
ViewVar(level) ==
    IF level = "L1A" THEN AuxVar(level)
    ELSE <<"SENSOR_VIEWS_BANDS", "intensity_wavelengths">>

NextCheck ==
    \/ \E level \in Levels :
          \E dims \in DimChoices(level) : New(1, level, dims)
    \/ \E i \in Constructed :
          \E var \in {TimeVar(prod[i].level), ViewVar(prod[i].level)} :
             \E value \in WriteValues(IF var = TimeVar(prod[i].level)
                                      THEN {2000000} ELSE Payload) :
                SetDset(i, <<"/">> \o var, value, DefaultIbgn)
    \/ \E i \in Constructed : Close(i)

SpecCheck == Init /\ [][NextCheck]_vars

\* Products written under names that set_dset accepts or refuses: a tracked
\* name, the same name without the leading '/', a variable of the file that
\* the class's table does not hold, and names of no variable.
UntrackedNames(level) ==
    IF level = "L1A" THEN {K("engineering_data", "DemHK_telemetry")} ELSE {}

FrameNames(level) ==
    {<<"/">> \o DataVar(level), DataVar(level)}
        \cup UntrackedNames(level) \cup BadNames(level)

NextFrame ==
    \/ \E level \in Levels :
          \E dims \in DimChoices(level) : New(1, level, dims)
    \/ \E i \in Constructed :
          \E name \in FrameNames(prod[i].level) :
             \E value \in WriteValues(Payload), ibgn \in {DefaultIbgn, 0} :
                SetDset(i, name, value, ibgn)
    \/ \E i \in Constructed : Close(i)

SpecFrame == Init /\ [][NextFrame]_vars

\* The fill methods of L1A products: k images with their telemetry records
\* and identifiers, batches of NomHK records of one kind, and k DemHK
\* records; k from 0 on.
SciRecord ==
    [binning_table |-> 1, digital_offset |-> 2, exposure_time |-> 3,
     nr_coadditions |-> 4]
FillRecord ==
    [TS1_DEM_N_T |-> 5, TS2_HOUSING_N_T |-> 5, TS3_RADIATOR_N_T |-> 5]
Rows(k, x) == [j \in 1..k |-> x]

\* fill_science(img_data, img_hk, img_id) on instance i, each of k rows
FillScience(i, k) ==
    /\ prod[i].level = "L1A"
    /\ LET r == L1Aio_fill_science(prod[i], FileOf(i), dset_stored["L1A"],
                                   Rows(k, 7), Rows(k, SciRecord), Rows(k, 9))
       IN  /\ \A n \in Keys("L1A") : r.stored[n] <= MaxStored
           /\ call' = [CallOn(i, "fill_science") EXCEPT
                          !.rows = k, !.raised = r.raised]
           /\ files' = PutFile(i, r.file)
           /\ dset_stored' = [dset_stored EXCEPT !["L1A"] = r.stored]
           /\ UNCHANGED <<prod, hist, grouper, script>>

\* fill_demhk(demhk_data) on instance i, with k records
FillDemhk(i, k) ==
    /\ prod[i].level = "L1A"
    /\ LET r == L1Aio_fill_demhk(prod[i], FileOf(i), dset_stored["L1A"],
                                 Rows(k, 8))
       IN  /\ call' = [CallOn(i, "fill_demhk") EXCEPT
                          !.rows = k, !.raised = r.raised]
           /\ files' = PutFile(i, r.file)
           /\ dset_stored' = [dset_stored EXCEPT !["L1A"] = r.stored]
           /\ UNCHANGED <<prod, hist, grouper, script>>

NextFill ==
    \/ \E i \in Products :
          \E dims \in DimChoices("L1A") : New(i, "L1A", dims)
    \/ \E i \in Constructed :
          SetDset(i, <<"/">> \o DataVar("L1A"),
                  [scalar |-> FALSE, rows |-> Rows(1, 7)], DefaultIbgn)
    \/ \E i \in Constructed, k \in 0..MaxRows : FillScience(i, k)
    \/ \E i \in Constructed, k \in 0..MaxRows :
          FillNomhk(i, Rows(k, FillRecord))
    \/ \E i \in Constructed, k \in 0..1 : FillDemhk(i, k)
    \/ \E i \in Constructed : Close(i)

SpecFill == Init /\ [][NextFill]_vars

\* The Packet Grouper consuming a stream of raw packets: every stream of at
\* most MaxPackets packets over the APIDs and the sequence flags.
Group(apid, flag, len) ==
    /\ Len(grouper.read) < MaxPackets
    /\ grouper' = GroupStep(grouper,
                            RawPacket(Len(grouper.read) + 1, apid, flag, len))
    /\ UNCHANGED <<dset_stored, prod, files, call, hist, script>>

NextGrouper ==
    \E apid \in APIDs, flag \in SeqFlags, len \in 1..MaxPayload :
        Group(apid, flag, len)

SpecGrouper == Init /\ [][NextGrouper]_vars

\* main() of spx1_ccsds2l1a.py, from the command line to the packet list.
\* The files named on the command line exist.
FileLists == SeqsUpTo(FileNames, MaxFiles)

Args(file_list, disk) ==
    /\ script.pc = "args"
    /\ script' = Main_args(file_list, disk)
    /\ UNCHANGED <<dset_stored, prod, files, call, hist, grouper>>

ReadFile ==
    /\ script.pc = "read"
    /\ script' = Main_read(script)
    /\ UNCHANGED <<dset_stored, prod, files, call, hist, grouper>>

GroupPackets ==
    /\ script.pc = "group"
    /\ script' = Main_group(script)
    /\ UNCHANGED <<dset_stored, prod, files, call, hist, grouper>>

NextReader ==
    \/ \E file_list \in FileLists, disk \in Disks : Args(file_list, disk)
    \/ ReadFile
    \/ GroupPackets

SpecReader == Init /\ [][NextReader]_vars

\* The with statement of main(): the product is constructed, the images are
\* written, fill_mps is called, and __exit__ closes the product.  An
\* exception of the constructor leaves the with statement at once.
MakeProduct ==
    /\ script.pc = "product"
    /\ Free(1)
    /\ IF Main_new # "none"
       THEN /\ script' = [script EXCEPT !.pc = "raised", !.raised = Main_new]
            /\ UNCHANGED <<dset_stored, prod, files, call, hist, grouper>>
       ELSE LET dims == [row |-> Len(script.tstamp), aux |-> 0]
                r0 == Lv1io_init("L1A", dims, FALSE, NoFile,
                                 dset_stored["L1A"])
                p == [level |-> "L1A", product |-> 1, fid |-> 1,
                      scope |-> "in", closed |-> FALSE]
                images == [scalar |-> FALSE,
                           rows |-> [i \in 1..Len(script.tstamp) |-> 7]]
                r1 == Lv1io_set_dset(p, r0.file, r0.stored,
                          K("science_data", "detector_images"), images,
                          DefaultIbgn)
                exc == IF r1.raised # "none" THEN r1.raised
                       ELSE IF "fill_mps" \in L1AioMethods THEN "none"
                       ELSE "AttributeError"
                x == Lv1io_exit(p, r1.file, r1.stored, exc)
            IN  /\ script' = [script EXCEPT
                      !.pc = IF x.raised = "none" THEN "done" ELSE "raised",
                      !.raised = x.raised]
                /\ prod' = [prod EXCEPT ![1] =
                      [p EXCEPT !.fid = x.fid, !.scope = "out",
                                !.closed = x.closed]]
                /\ files' = [files EXCEPT ![1] = x.file]
                /\ dset_stored' = [dset_stored EXCEPT !["L1A"] = r1.stored]
                /\ call' = [NoCall EXCEPT !.op = "exit", !.inst = 1,
                               !.level = "L1A", !.exc = exc,
                               !.raised = x.raised, !.warnings = x.warnings]
                /\ UNCHANGED <<hist, grouper>>

NextMain ==
    \/ NextReader
    \/ MakeProduct

SpecMain == Init /\ [][NextMain]_vars

\* ------------------------------------------------------------- properties
\* The file instance call.inst works on.
CallFile == files[prod[call.inst].product]

\* C1 (as the code has it): once a product is closed, every set_dset call
\* on it fails, with the TypeError or AttributeError of an access through
\* self.fid = None (there is no ClosedProductError), and changes neither a
\* file nor a counter nor the instance.
C1_WriteAfterCloseFails ==
    [][(call'.op = "set_dset" /\ call'.wasClosed)
          => /\ call'.raised \in {"TypeError", "AttributeError"}
             /\ UNCHANGED <<dset_stored, files, prod>>]_vars

C1_Witness ==
    /\ call.op = "set_dset"
    /\ call.wasClosed
    /\ call.name \in GoodNames(call.level)
    /\ call.raised = "TypeError"

\* C1 as stated: a set_dset call on a closed product fails with
\* ClosedProductError.
C1_AsStated ==
    (call.op = "set_dset" /\ call.wasClosed)
        => call.raised = "ClosedProductError"

\* C2 as stated: a product created fresh (append=False) starts with all of
\* its stored-length counters at zero, also after an earlier product of the
\* same processing level was written.
C2_FreshCountersZero ==
    (call.op = "init" /\ call.raised = "none" /\ ~call.append)
        => \A k \in Keys(call.level) : dset_stored[call.level][k] = 0

\* C3: a successful set_dset call adds the number of rows written (1 for a
\* scalar) to the counter of its variable and leaves every other counter as
\* it was.
C3_CounterIncrement ==
    [][(call'.op = "set_dset" /\ call'.raised = "none")
          => /\ call'.name \in Keys(call'.level)
             /\ dset_stored' =
                  [dset_stored EXCEPT ![call'.level][call'.name] =
                      @ + (IF call'.scalar THEN 1 ELSE call'.rows)]]_vars

C3_Witness ==
    /\ call.op = "set_dset"
    /\ call.raised = "none"
    /\ ~call.scalar
    /\ call.rows = 2
    /\ dset_stored[call.level][call.name] = 2
    /\ \E k \in Keys(call.level) : dset_stored[call.level][k] = 0

\* C4: for every N >= 1, N appending set_dset calls of one row each on a
\* variable of an unlimited dimension leave its stored-length counter where
\* one appending call of N rows leaves the counter of a variable that
\* started from the same length: at that length plus N.
C4_RoundTrip ==
    \A l \in Levels : \A v \in GoodNames(l), w \in GoodNames(l) :
       \A n \in 1..(MaxStored + 1) :
          ( /\ hist[l][v].base = hist[l][w].base
            /\ hist[l][v].calls = [j \in 1..n |-> 1]
            /\ hist[l][w].calls = <<n>> )
          => /\ dset_stored[l][v] = dset_stored[l][w]
             /\ dset_stored[l][v] = hist[l][v].base + n

C4_Witness ==
    \E l \in Levels : \E v \in GoodNames(l), w \in GoodNames(l) :
       /\ hist[l][v].base = hist[l][w].base
       /\ hist[l][v].calls = <<1, 1>>
       /\ hist[l][w].calls = <<2>>
       /\ dset_stored[l][v] = dset_stored[l][w]

\* C5 as stated: closing a product to which zero rows were written leaves
\* time_coverage_start and time_coverage_end unset, does not raise, and
\* releases the file.
C5_EmptyCloseNoCoverage ==
    (call.op = "close" /\ ~call.wasClosed /\ DOMAIN CallFile.data = {})
        => /\ call.raised = "none"
           /\ ~HasAttr(CallFile, << >>, "time_coverage_start")
           /\ ~HasAttr(CallFile, << >>, "time_coverage_end")
           /\ ~CallFile.open
           /\ prod[call.inst].fid = None

\* C6 as stated, for a product whose row dimension is not zero: closing it
\* with mismatched stored lengths prints one warning for each offending
\* variable (a counter that check_stored compares and that differs from the
\* size of the variable's dimension; in L1A, a counter above zero), raises
\* nothing, writes the time-coverage attributes and releases the file.
C6_MismatchWarnedPerVariable ==
    LET level == call.level
        stored == dset_stored[level]
        compared == Keys(level)
                      \ {K("SENSOR_VIEWS_BANDS", "viewport_index")}
        offending ==
            {k \in compared :
                /\ stored[k] # DimSize(CallFile, DimRole(level, Comps(k)))
                /\ level = "L1A" => stored[k] > 0}
    IN  ( /\ call.op = "close"
          /\ ~call.wasClosed
          /\ DimSize(CallFile, "row") > 0
          /\ offending # {} )
        => /\ call.raised = "none"
           /\ Len(call.warnings) = Cardinality(offending)
           /\ {w[1] : w \in Range(call.warnings)} = offending
           /\ HasAttr(CallFile, << >>, "time_coverage_start")
           /\ HasAttr(CallFile, << >>, "time_coverage_end")
           /\ ~CallFile.open
           /\ prod[call.inst].fid = None

\* C7: close() on a product that is closed already does not raise, prints
\* no warning of check_stored, and changes neither a file (its attributes
\* included) nor a counter nor the instance.
C7_CloseIdempotent ==
    [][(call'.op = "close" /\ call'.wasClosed)
          => /\ call'.raised = "none"
             /\ call'.warnings = << >>
             /\ UNCHANGED <<dset_stored, files, prod>>]_vars

C7_Witness ==
    /\ call.op = "close"
    /\ call.wasClosed
    /\ HasAttr(CallFile, << >>, "time_coverage_end")
    /\ \E k \in Keys(call.level) : dset_stored[call.level][k] > 0

\* C8: when control has left the with block of a product, normally or with
\* an exception, the instance is closed and has released the file (the file
\* is open only if a later instance has opened it again), and the with
\* statement raises the exception that left the block (none on the normal
\* path).
C8_ScopeExitReleases ==
    call.op = "exit"
        => /\ prod[call.inst].fid = None
           /\ prod[call.inst].closed
           /\ CallFile.open =>
                 \E j \in Products \ {call.inst} :
                    prod[j].fid = prod[call.inst].product
           /\ call.raised = call.exc

C8_Witness ==
    /\ call.op = "exit"
    /\ call.exc # "none"
    /\ ~call.wasClosed
    /\ call.raised = call.exc
    /\ ~CallFile.open
    /\ DOMAIN CallFile.data # {}

\* C9 as stated: set_dset on an open product with a name that is no variable
\* of the file fails with KeyError.
C9_UnknownNameKeyError ==
    ( /\ call.op = "set_dset"
      /\ ~call.wasClosed
      /\ Comps(call.name) \notin FileVars(call.level) )
        => call.raised = "KeyError"

\* C10 as stated: set_attr on an open product with a ds_name that is not
\* None and names neither a group nor a variable of the file fails with
\* KeyError; with ds_name None it succeeds and the global attribute is set.
C10_UnknownTargetKeyError ==
    (call.op = "set_attr" /\ ~call.wasClosed)
        => IF call.name = NoTarget
           THEN call.raised = "none" /\ \E n \in AttrNames :
                                           HasAttr(CallFile, << >>, n)
           ELSE ( /\ Comps(call.name) \notin FileVars(call.level)
                  /\ Comps(call.name) \notin
                        {<<g>> : g \in FileGroups(call.level)} )
                => call.raised = "KeyError"

\* C11 as stated: get_attr(name, ds_name) called right after a successful
\* set_attr(name, value, ds_name) on the same product returns the value
\* written (a str as a str), for every ds_name set_attr accepts.
C11_GetAfterSet ==
    [][( /\ call.op = "set_attr"
         /\ call.raised = "none"
         /\ call'.op = "get_attr"
         /\ call'.inst = call.inst
         /\ call'.attr = call.attr
         /\ call'.name = call.name )
          => /\ call'.raised = "none"
             /\ call'.value = call.value]_vars

\* C12 as stated: opening a product in append mode sets each counter to
\* the length its variable has in the file, and a set_dset call without a
\* start index on the instance so opened stores its rows (one row for a
\* scalar) behind the rows the variable had and leaves those as they were.
C12_AppendAfterExisting ==
    [][LET i == call'.inst
           level == call'.level
           v == Comps(call'.name)
           n == IF call'.scalar THEN 1 ELSE call'.rows
           before == VarData(files[prod'[i].product], v)
           after == VarData(files'[prod'[i].product], v)
       IN  /\ (call'.op = "init" /\ call'.append /\ call'.raised = "none")
                 => \A k \in Keys(level) :
                       dset_stored'[level][k] =
                          DimSize(files'[prod'[i].product],
                                  DimRole(level, Comps(k)))
           /\ ( /\ call'.op = "set_dset"
                /\ call'.raised = "none"
                /\ prod'[i].product # i )
                 => /\ Len(after) >= Len(before) + n
                    /\ \A j \in 1..Len(before) : after[j] = before[j]
                    /\ \A j \in (Len(after) - n + 1)..Len(after) :
                          after[j] # Fill]_vars

\* C13 as stated: a close that finalizes a product whose time variable is
\* written over the whole row dimension sets time_coverage_start to the
\* reference date plus the first entry and time_coverage_end to the
\* reference date plus the last entry (whichever is larger), each with
\* the milliseconds of the entry.
C13_CoverageFirstLast ==
    LET t == VarData(CallFile, TimeVar(call.level))
        n == DimSize(CallFile, "row")
    IN  ( /\ call.op = "close"
          /\ ~call.wasClosed
          /\ call.raised = "none"
          /\ n > 0
          /\ Len(t) = n
          /\ \A j \in 1..n : t[j] # Fill )
        => /\ <<<< >>, "time_coverage_start", Iso(t[1] \div 1000)>>
                 \in CallFile.attrs
           /\ <<<< >>, "time_coverage_end", Iso(t[n] \div 1000)>>
                 \in CallFile.attrs

C15_ZeroCountFallback ==
    \A i \in Constructed :
       LET f == files[prod[i].product]
           raw == VarData(f, <<"engineering_data", "NomHK_telemetry">>)
           Temp(var) == VarData(f, <<"engineering_data", var>>)
           Ok(j, field, var, fallback) ==
               (j <= Len(Temp(var)) /\ raw[j][field] = 0)
                   => Temp(var)[j] = Kelvin(fallback)
       IN  \A j \in 1..Len(raw) :
              /\ Ok(j, "TS1_DEM_N_T", "temp_detector", 273)
              /\ Ok(j, "TS2_HOUSING_N_T", "temp_housing", 293)
              /\ Ok(j, "TS3_RADIATOR_N_T", "temp_radiator", 294)

\* ---- the Packet Grouper
\* The raw packets consumed so far and the Logical Packets emitted for them.
Stream == grouper.read
Emitted == grouper.out

\* The raw packets that the bytes of a Logical Packet come from.
Constituents(lp) == {lp.payload[j][1] : j \in 1..Len(lp.payload)}

\* The stream is a run FIRST, CONTINUATION*, LAST of one APID and then one
\* STANDALONE packet.
RunThenStandalone ==
    LET n == Len(Stream)
    IN  /\ n >= 3
        /\ FlagsOf(Stream[1]) = FIRST
        /\ \A k \in 2..(n - 2) : FlagsOf(Stream[k]) = CONTINUATION
        /\ FlagsOf(Stream[n - 1]) = LAST
        /\ FlagsOf(Stream[n]) = STANDALONE
        /\ \A k \in 1..(n - 1) : ApidOf(Stream[k]) = ApidOf(Stream[1])

\* C16: a run FIRST, CONTINUATION*, LAST of one APID followed by a STANDALONE
\* packet gives exactly two Logical Packets, the run first and the
\* STANDALONE packet second; the first has as many payload bytes as the
\* packets of the run together, the second as many as the STANDALONE packet.
C16_RunThenStandaloneTwoPackets ==
    RunThenStandalone =>
        LET n == Len(Stream)
            RunBytes == {b \in (1..(n - 1)) \X (1..MaxPayload) :
                            b[2] <= Len(Stream[b[1]].payload)}
        IN  /\ Len(Emitted) = 2
            /\ Constituents(Emitted[1]) = 1..(n - 1)
            /\ Constituents(Emitted[2]) = {n}
            /\ Len(Emitted[1].payload) = Cardinality(RunBytes)
            /\ Len(Emitted[2].payload) = Len(Stream[n].payload)

\* A run with a CONTINUATION packet and packets of different length, then a
\* STANDALONE packet, has been grouped.
C16_Witness ==
    /\ RunThenStandalone
    /\ Len(Stream) = 4
    /\ Len(Stream[1].payload) # Len(Stream[2].payload)
    /\ Len(Emitted) = 2
    /\ Len(Emitted[1].payload) = 5

\* The Grouper after the first k - 1 packets of the stream, and the stream
\* without its k-th packet.
Before(k) == group(SubSeq(Stream, 1, k - 1))
Without(k) == SubSeq(Stream, 1, k - 1) \o SubSeq(Stream, k + 1, Len(Stream))

\* Packet k is a CONTINUATION packet that arrives while no run is open for
\* its APID.
Orphan(k) ==
    /\ FlagsOf(Stream[k]) = CONTINUATION
    /\ ~Before(k).buffer[ApidOf(Stream[k])].open

\* C17: a CONTINUATION packet that arrives while no run is open for its APID
\* is dropped: none of its bytes is in an emitted Logical Packet, as many
\* Logical Packets are emitted as for the stream without it, the buffers are
\* the same after it as before it (no run is opened), and no error is raised.
C17_OrphanContinuationDropped ==
    \A k \in 1..Len(Stream) :
        Orphan(k) =>
            /\ \A i \in 1..Len(Emitted) : k \notin Constituents(Emitted[i])
            /\ Len(Emitted) = Len(group(Without(k)).out)
            /\ Before(k + 1).buffer = Before(k).buffer
            /\ grouper.raised = "none"

\* An orphan CONTINUATION packet after an emitted Logical Packet, with a
\* LAST packet of its APID behind it and a Logical Packet emitted after it.
C17_Witness ==
    /\ Len(Stream) = 4
    /\ Orphan(2)
    /\ FlagsOf(Stream[3]) = LAST
    /\ ApidOf(Stream[3]) = ApidOf(Stream[2])
    /\ FlagsOf(Stream[4]) = STANDALONE
    /\ Len(Emitted) = 2

\* Packet k is a FIRST packet that arrives while a run is open for its APID.
Abandons(k) ==
    /\ FlagsOf(Stream[k]) = FIRST
    /\ Before(k).buffer[ApidOf(Stream[k])].open

\* C18: when a FIRST packet arrives for an APID with an open run, the open
\* run is discarded and a new run is started with the FIRST packet alone: at
\* no later point of the stream does an emitted Logical Packet hold a byte of
\* the abandoned run, and no error is raised.
C18_AbandonedRunNeverEmitted ==
    \A k \in 1..Len(Stream) :
        Abandons(k) =>
            LET a == ApidOf(Stream[k])
                abandoned == Constituents(Before(k).buffer[a])
            IN  /\ \A i \in 1..Len(Emitted) :
                       Constituents(Emitted[i]) \cap abandoned = {}
                /\ Before(k + 1).buffer[a].open
                /\ Before(k + 1).buffer[a].payload = Stream[k].payload
                /\ grouper.raised = "none"

\* A run of a FIRST and a CONTINUATION packet is abandoned by a second FIRST
\* packet of the APID, and the LAST packet behind it completes the new run.
C18_Witness ==
    /\ Len(Stream) = 4
    /\ FlagsOf(Stream[1]) = FIRST
    /\ FlagsOf(Stream[2]) = CONTINUATION
    /\ Abandons(3)
    /\ FlagsOf(Stream[4]) = LAST
    /\ \A k \in 2..4 : ApidOf(Stream[k]) = ApidOf(Stream[1])
    /\ Len(Emitted) = 1
    /\ Constituents(Emitted[1]) = {3, 4}

\* The position in the stream of the packet that completes a Logical Packet,
\* and the packets of the stream and the Logical Packets of one APID.
Completion(lp) == lp.payload[Len(lp.payload)][1]
StreamOf(a) == LET Is(pkt) == ApidOf(pkt) = a IN SelectSeq(Stream, Is)
EmittedOf(a) == LET Is(lp) == ApidOf(lp) = a IN SelectSeq(Emitted, Is)

\* Packet k completes a Logical Packet: a STANDALONE packet, or a LAST packet
\* that arrives while a run is open for its APID.
Completes(k) ==
    \/ FlagsOf(Stream[k]) = STANDALONE
    \/ /\ FlagsOf(Stream[k]) = LAST
       /\ Before(k).buffer[ApidOf(Stream[k])].open

\* C19: the Logical Packets are emitted in the order in which their LAST or
\* STANDALONE packet stands in the stream, one for every completing packet,
\* also when runs of different APIDs are interleaved; a Logical Packet and an
\* open run hold bytes of packets of their own APID only, and the Logical
\* Packets of an APID are those of the stream of that APID alone.
C19_CompletionOrderPerApid ==
    /\ \A i \in 1..Len(Emitted) : Completes(Completion(Emitted[i]))
    /\ \A i, j \in 1..Len(Emitted) :
           i < j => Completion(Emitted[i]) < Completion(Emitted[j])
    /\ \A k \in 1..Len(Stream) :
           Completes(k) => \E i \in 1..Len(Emitted) : Completion(Emitted[i]) = k
    /\ \A i \in 1..Len(Emitted) : \A k \in Constituents(Emitted[i]) :
           ApidOf(Stream[k]) = ApidOf(Emitted[i])
    /\ \A a \in APIDs : \A k \in Constituents(grouper.buffer[a]) :
           ApidOf(Stream[k]) = a
    /\ \A a \in APIDs : EmittedOf(a) = group(StreamOf(a)).out

\* Two interleaved runs: the run that was opened last is completed first,
\* and is emitted first.
C19_Witness ==
    /\ Len(Stream) = 4
    /\ FlagsOf(Stream[1]) = FIRST /\ FlagsOf(Stream[2]) = FIRST
    /\ FlagsOf(Stream[3]) = LAST /\ FlagsOf(Stream[4]) = LAST
    /\ ApidOf(Stream[1]) = ApidOf(Stream[4])
    /\ ApidOf(Stream[2]) = ApidOf(Stream[3])
    /\ ApidOf(Stream[1]) # ApidOf(Stream[2])
    /\ Len(Emitted) = 2
    /\ Constituents(Emitted[1]) = {2, 3}
    /\ Constituents(Emitted[2]) = {1, 4}

\* The first raw packet of the run of a Logical Packet.
FirstOf(lp) == Stream[lp.payload[1][1]]

\* C20: every emitted Logical Packet carries the time stamp and the
\* sequence-count of the first raw packet of its run, which is a FIRST or a
\* STANDALONE packet, and not those of a later packet of the run: these are
\* the time stamp and the image identifier that the script takes from it.
C20_IdentityOfFirstPacket ==
    \A i \in 1..Len(Emitted) :
        LET lp == Emitted[i]
        IN  /\ FlagsOf(FirstOf(lp)) \in {FIRST, STANDALONE}
            /\ TaiSec(lp) = TaiSec(FirstOf(lp))
            /\ ImageId(lp) = CountOf(FirstOf(lp))
            /\ \A k \in Constituents(lp) :
                   Stream[k] # FirstOf(lp) =>
                       /\ TaiSec(lp) # TaiSec(Stream[k])
                       /\ ImageId(lp) # CountOf(Stream[k])

\* A run of three packets over which the sequence-count wraps around has
\* been emitted with the identity of its FIRST packet.
C20_Witness ==
    /\ Len(Emitted) >= 1
    /\ Constituents(Emitted[1]) = {1, 2, 3}
    /\ CountOf(Stream[3]) < CountOf(Stream[1])
    /\ ImageId(Emitted[1]) = CounterSize - 1
    /\ TaiSec(Emitted[1]) = TimeBase + 1

\* The raw packets of a Logical Packet in the order of its payload bytes.
ConstituentSeq(lp) == [j \in 1..Len(lp.payload) |-> lp.payload[j][1]]

RECURSIVE Concatenated(_, _)
Concatenated(disk, names) ==
    IF names = << >> THEN << >>
    ELSE (IF Head(names).suffix = ".H" THEN << >>
          ELSE CCSDSio_read(disk, Head(names)))
             \o Concatenated(disk, Tail(names))

\* C22: once the files are read, the packet list holds the packets of the
\* files in the order in which the files stand on the command line; the
\* files are sorted neither by name nor by time.
C22_FileListOrder ==
    script.pc \in {"group", "return"} =>
        script.packet_list = Concatenated(script.disk, script.file_list)

\* The time stamps of the grouped packets are strictly increasing.
Increasing(t) == \A i, j \in 1..Len(t) : i < j => t[i] < t[j]

\* C23: when main() has ended on grouped packets with strictly increasing
\* time stamps, it has ended without an error, the product exists and is
\* closed, and its time_coverage_start and time_coverage_end are the first
\* and the last time stamp at millisecond precision.
C23_EndToEnd ==
    ( /\ script.pc \in {"done", "raised"}
      /\ Increasing(script.tstamp) )
    => /\ script.raised = "none"
       /\ files[1].level = "L1A"
       /\ ~files[1].open
       /\ <<<< >>, "time_coverage_start", Iso(script.tstamp[1])>>
              \in files[1].attrs
       /\ <<<< >>, "time_coverage_end",
            Iso(script.tstamp[Len(script.tstamp)])>> \in files[1].attrs

\* ---- the products, continued
\* C24: after a close of an L1B or L1C product that finalizes, a first
\* (last) stored time value with a non-zero fraction of a second gives a
\* time_coverage_start (time_coverage_end) of the epoch plus that value
\* rounded down to the millisecond: the fraction of the second is kept.
C24_SubSecondKept ==
    LET t == VarData(CallFile, TimeVar(call.level))
        n == DimSize(CallFile, "row")
    IN  ( /\ call.op = "close"
          /\ call.level \in {"L1B", "L1C"}
          /\ ~call.wasClosed
          /\ call.raised = "none"
          /\ n > 0
          /\ Len(t) = n
          /\ \A j \in 1..n : t[j] # Fill )
        => /\ t[1] % 1000000 # 0 =>
                 AttrOf(CallFile, << >>, "time_coverage_start")
                     = Iso(t[1] \div 1000)
           /\ t[n] % 1000000 # 0 =>
                 AttrOf(CallFile, << >>, "time_coverage_end")
                     = Iso(t[n] \div 1000)

\* C25: every warning printed by the consistency check of a close names a
\* variable whose stored length differs from the size of its dimension, and
\* the length it reports is the stored length of the variable it names.
C25_WarningNamesItsVariable ==
    ( /\ call.op = "close"
      /\ ~call.wasClosed
      /\ call.raised = "none" )
    => \A j \in 1..Len(call.warnings) :
          LET name == call.warnings[j][1]
              count == call.warnings[j][2]
              stored == dset_stored[call.level]
          IN  /\ name \in DOMAIN stored
              /\ count = stored[name]
              /\ stored[name] #
                    DimSize(CallFile, DimRole(call.level, Comps(name)))

\* ---- the script, continued
\* The grouped packets of main(), and a packet with its field sequence
\* raised by m times the counter width.
Packets == group(script.packet_list).out
Raised(packet, m) ==
    [packet EXCEPT !.primary_header.sequence = @ + m * CounterSize]

OnlyFirstProduct ==
    /\ prod[1].level \in Levels
    /\ prod[1].fid = 1
    /\ files[1].open
    /\ \A i \in Products \ {1} : prod[i].level = "none"
    /\ call.op \in {"init", "set_dset"}
    /\ ~call.append

\* C27: on an open product, after any sequence of set_dset calls, the
\* stored-length counter of every tracked variable is the number of rows the
\* variable holds along its first dimension.
C27_CounterIsRowsStored ==
    OnlyFirstProduct =>
        \A name \in DOMAIN dset_stored[prod[1].level] :
            dset_stored[prod[1].level][name]
                = Len(VarData(files[1], Comps(name)))

\* C28: a set_dset call that raises leaves the product as it was: the file
\* holds no data of the call and no stored-length counter has changed.
C28_FailedWriteChangesNothing ==
    [][ ( /\ call'.op = "set_dset"
          /\ call'.raised # "none" )
        => /\ files' = files
           /\ dset_stored' = dset_stored ]_vars

\* The counters of the variables that fill_science and fill_nomhk write.
ScienceNames ==
    {K("science_data", "detector_images"),
     K("science_data", "detector_telemetry"),
     K("image_attributes", "image_ID"),
     K("image_attributes", "binning_table"),
     K("image_attributes", "digital_offset"),
     K("image_attributes", "exposure_time"),
     K("image_attributes", "nr_coadditions")}
NomhkNames ==
    {K("engineering_data", "NomHK_telemetry"),
     K("engineering_data", "temp_detector"),
     K("engineering_data", "temp_housing"),
     K("engineering_data", "temp_radiator")}
AllEqual(stored, names) == \A a, b \in names : stored[a] = stored[b]

\* C29: after a fill_science call on a freshly created L1A product the
\* counters of the seven variables it writes are all equal, and after a
\* fill_nomhk call on a freshly created L1A product the counters of the four
\* variables it writes are all equal.
C29_FillCountersEqual ==
    [][ ( /\ call.op = "init"
          /\ ~call.append
          /\ call.raised = "none"
          /\ call'.inst = call.inst
          /\ call'.raised = "none" )
        => /\ call'.op = "fill_science" =>
                 AllEqual(dset_stored'["L1A"], ScienceNames)
           /\ call'.op = "fill_nomhk" =>
                 AllEqual(dset_stored'["L1A"], NomhkNames) ]_vars

\* C30: fill_science, fill_nomhk and fill_demhk called with an empty
\* telemetry array return without an exception, write no variable and leave
\* every stored-length counter as it was, on an open and on a closed product.
C30_EmptyFillIsNoOp ==
    [][ ( /\ call'.op \in {"fill_science", "fill_nomhk", "fill_demhk"}
          /\ call'.rows = 0 )
        => /\ call'.raised = "none"
           /\ files' = files
           /\ dset_stored' = dset_stored
           /\ prod' = prod ]_vars

\* fill_demhk has been called with an empty array on an open product that
\* holds images.
C30_Witness ==
    /\ call.op = "fill_demhk"
    /\ call.rows = 0
    /\ call.raised = "none"
    /\ ~call.wasClosed
    /\ CallFile.open
    /\ dset_stored["L1A"][K("science_data", "detector_images")] > 0

=============================================================================
